---- MODULE Spec2Model ----
(***************************************************************************)
(* Loyalty-rewards backend: the QR redemption handler POST /api/scan-qr,   *)
(* the points endpoints GET/PATCH /api/customers/:username/points, and the *)
(* Customer and QRBatch collections they work on.                          *)
(*                                                                         *)
(* Every handler is an async function: it runs without interruption up to  *)
(* its next `await`, where the store operation it issued is carried out    *)
(* (atomically, by the store) at some later moment, other requests running *)
(* in between.  An action is therefore one store round-trip of one request *)
(* together with the synchronous code that follows it up to the next       *)
(* `await` or the response.                                                *)
(*                                                                         *)
(* Text is a sequence of one-character strings, so that split, trim,       *)
(* startsWith and parseInt are computed as JavaScript computes them.       *)
(***************************************************************************)
EXTENDS Integers, Sequences, FiniteSets, TLC

VARIABLES
    Customer,   \* the Customer collection: id -> [username, points]
    QRBatch,    \* the QRBatch collection: batchId -> document
    req,        \* the requests: input, position, locals, response
    credited    \* history: the requests whose $inc the store has applied

vars == <<Customer, QRBatch, req, credited>>

(***************************************************************************)
(* Bounds of the model.                                                    *)
(***************************************************************************)
\* request slots; slot r is the r-th request the server receives
MaxReq == 2

Reqs == 1..MaxReq

(***************************************************************************)
(* Optional values: null is the empty sequence, a value v is <<v>>.        *)
(***************************************************************************)
Null == <<>>

Some(v) == <<v>>

(***************************************************************************)
(* JavaScript string functions used by the payload parser.                 *)
(***************************************************************************)
\* String.prototype.trim removes white space and line terminators
IsWhiteSpace(c) == c \in {" ", "\t", "\r", "\n"}

RECURSIVE TrimStart(_)
TrimStart(s) ==
    IF s # <<>> /\ IsWhiteSpace(Head(s)) THEN TrimStart(Tail(s)) ELSE s

RECURSIVE TrimEnd(_)
TrimEnd(s) ==
    IF s # <<>> /\ IsWhiteSpace(s[Len(s)])
    THEN TrimEnd(SubSeq(s, 1, Len(s) - 1))
    ELSE s

Trim(s) == TrimEnd(TrimStart(s))

StartsWith(s, prefix) ==
    /\ Len(s) >= Len(prefix)
    /\ SubSeq(s, 1, Len(prefix)) = prefix

\* s.split(sep) for a one-character separator: always at least one piece
RECURSIVE SplitFrom(_, _, _)
SplitFrom(s, sep, piece) ==
    IF s = <<>> THEN <<piece>>
    ELSE IF Head(s) = sep
         THEN <<piece>> \o SplitFrom(Tail(s), sep, <<>>)
         ELSE SplitFrom(Tail(s), sep, Append(piece, Head(s)))

Split(s, sep) == SplitFrom(s, sep, <<>>)

\* a find that keeps the last matching line
FindLastLine(lines, label) ==
    LET found == { i \in DOMAIN lines : StartsWith(Trim(lines[i]), label) }
    IN  IF found = {} THEN Null
        ELSE Some(lines[CHOOSE i \in found : \A k \in found : k <= i])

\* lines.find(line => line.trim().startsWith(label)): the first such line,
\* or undefined (Null)
RECURSIVE FindLine(_, _)
FindLine(lines, label) ==
    IF lines = <<>> THEN Null
    ELSE IF StartsWith(Trim(Head(lines)), label) THEN Some(Head(lines))
         ELSE FindLine(Tail(lines), label)

DecDigits == <<"0", "1", "2", "3", "4", "5", "6", "7", "8", "9">>

HexDigits == DecDigits \o <<"a", "b", "c", "d", "e", "f">>

UpperHex == DecDigits \o <<"A", "B", "C", "D", "E", "F">>

IsDigit(c, radix) ==
    \E i \in 1..radix : HexDigits[i] = c \/ UpperHex[i] = c

DigitValue(c) ==
    (CHOOSE i \in 1..16 : HexDigits[i] = c \/ UpperHex[i] = c) - 1

\* the value of the longest prefix of s made of digits of the radix,
\* Null when that prefix is empty
RECURSIVE DigitsPrefix(_, _, _, _)
DigitsPrefix(s, radix, acc, any) ==
    IF s # <<>> /\ IsDigit(Head(s), radix)
    THEN DigitsPrefix(Tail(s), radix, acc * radix + DigitValue(Head(s)), TRUE)
    ELSE IF any THEN Some(acc) ELSE Null

\* parseInt(s) without a radix: leading white space is skipped, a sign is
\* read, a 0x or 0X prefix selects radix 16, the digits that follow are
\* read up to the first character that is no digit; NaN (Null) when there
\* is no digit
ParseInt(s) ==
    LET t    == TrimStart(s)
        neg  == t # <<>> /\ Head(t) = "-"
        u    == IF t # <<>> /\ Head(t) \in {"+", "-"} THEN Tail(t) ELSE t
        hex  == Len(u) >= 2 /\ u[1] = "0" /\ u[2] \in {"x", "X"}
        mag  == IF hex THEN DigitsPrefix(Tail(Tail(u)), 16, 0, FALSE)
                       ELSE DigitsPrefix(u, 10, 0, FALSE)
    IN  IF mag = Null THEN Null
        ELSE Some(IF neg THEN 0 - mag[1] ELSE mag[1])

(***************************************************************************)
(* The scan payload parser of POST /api/scan-qr.                           *)
(***************************************************************************)
LabelQrId == <<"Q", "R", " ", "I", "D", ":">>

LabelBatchId == <<"B", "a", "t", "c", "h", " ", "I", "D", ":">>

LabelPoints == <<"P", "o", "i", "n", "t", "s", ":">>

\* the parse block: Null where it throws (a required line is missing, or
\* the points are NaN or <= 0), the triple otherwise
ParseQrData(qrData) ==
    LET lines       == Split(qrData, "\n")
        qrIdLine    == FindLine(lines, LabelQrId)
        batchIdLine == FindLine(lines, LabelBatchId)
        pointsLine  == FindLine(lines, LabelPoints)
    IN  IF qrIdLine = Null \/ batchIdLine = Null \/ pointsLine = Null
        THEN Null
        ELSE LET qrId    == Trim(Split(qrIdLine[1], ":")[2])
                 batchId == Trim(Split(batchIdLine[1], ":")[2])
                 points  == ParseInt(Trim(Split(pointsLine[1], ":")[2]))
             IN  IF points = Null \/ points[1] <= 0
                 THEN Null
                 ELSE Some([qrId |-> qrId, batchId |-> batchId,
                            points |-> points[1]])

(***************************************************************************)
(* The records of the store and the requests the model sends.              *)
(***************************************************************************)
A1 == <<"A", "1">>

A2 == <<"A", "2">>

A9 == <<"A", "9">>

B1 == <<"B", "1">>

B2 == <<"B", "2">>

B9 == <<"B", "9">>

\* the text a QR code of a batch carries:
\* "QR ID: XXX\nBatch ID: XXX\nPoints: XXX\nURL: XXX"
QrText(qrId, batchId, points) ==
    LabelQrId \o <<" ">> \o qrId \o <<"\n">>
    \o LabelBatchId \o <<" ">> \o batchId \o <<"\n">>
    \o LabelPoints \o <<" ">> \o points \o <<"\n">>
    \o <<"U", "R", "L", ":", " ", "u">>

\* the common data of the codes of a batch: "Points: X\nURL: Y"
BatchQrData(points) ==
    LabelPoints \o <<" ">> \o points \o <<"\n">>
    \o <<"U", "R", "L", ":", " ", "u">>

\* the lines of a text, joined by "\n"
RECURSIVE Join(_)
Join(lines) ==
    IF Len(lines) = 1 THEN lines[1]
    ELSE lines[1] \o <<"\n">> \o Join(Tail(lines))

\* one line "Label: value"
LineOf(label, value) == label \o <<" ">> \o value

UrlLine == <<"U", "R", "L", ":", " ", "u">>

\* the three required lines of the text of code A1 of batch B1
Canon ==
    << LineOf(LabelQrId, A1), LineOf(LabelBatchId, B1),
       LineOf(LabelPoints, <<"5", "0">>) >>

LowerLetters == <<"a", "b", "c", "d", "e", "f", "g", "h", "i", "j", "k", "l", "m",
                 "n", "o", "p", "q", "r", "s", "t", "u", "v", "w", "x", "y", "z">>

UpperLetters == <<"A", "B", "C", "D", "E", "F", "G", "H", "I", "J", "K", "L", "M",
                 "N", "O", "P", "Q", "R", "S", "T", "U", "V", "W", "X", "Y", "Z">>

\* a text with its letters a-z turned to lower case, and to upper case
ToLowerCase(s) ==
    [i \in DOMAIN s |->
        IF \E k \in DOMAIN UpperLetters : UpperLetters[k] = s[i]
        THEN LowerLetters[CHOOSE k \in DOMAIN UpperLetters :
                              UpperLetters[k] = s[i]]
        ELSE s[i]]

ToUpperCase(s) ==
    [i \in DOMAIN s |->
        IF \E k \in DOMAIN LowerLetters : LowerLetters[k] = s[i]
        THEN UpperLetters[CHOOSE k \in DOMAIN LowerLetters :
                              LowerLetters[k] = s[i]]
        ELSE s[i]]

\* The texts of the model.  The state holds a text by its name in this
\* table, and every operation on it works on the characters Text gives.
Text(name) ==
    CASE name = "A1 B1 50"  -> QrText(A1, B1, <<"5", "0">>)
      [] name = "A2 B1 50"  -> QrText(A2, B1, <<"5", "0">>)
      [] name = "A1 B1 70"  -> QrText(A1, B1, <<"7", "0">>)
      [] name = "A1 B2 50"  -> QrText(A1, B2, <<"5", "0">>)
      [] name = "A2 B2 50"  -> QrText(A2, B2, <<"5", "0">>)
      [] name = "A9 B1 50"  -> QrText(A9, B1, <<"5", "0">>)
      [] name = "A1 B9 50"  -> QrText(A1, B9, <<"5", "0">>)
      [] name = "A1 B1 0"   -> QrText(A1, B1, <<"0">>)
      [] name = "Points 50" -> BatchQrData(<<"5", "0">>)
      [] name = ""          -> <<>>
      [] name = "no QR ID"     -> Join(<<Canon[2], Canon[3], UrlLine>>)
      [] name = "no Batch ID"  -> Join(<<Canon[1], Canon[3], UrlLine>>)
      [] name = "no Points"    -> Join(<<Canon[1], Canon[2], UrlLine>>)
      [] name = "Points 50abc" -> QrText(A1, B1, <<"5", "0", "a", "b", "c">>)
      [] name = "Points 1.5"   -> QrText(A1, B1, <<"1", ".", "5">>)
      [] name = "Points 0x10"  -> QrText(A1, B1, <<"0", "x", "1", "0">>)
      [] name = "Points abc"   -> QrText(A1, B1, <<"a", "b", "c">>)
      [] name = "Points -5"    -> QrText(A1, B1, <<"-", "5">>)
      [] name = "lower-case labels" ->
             Join(<<LineOf(ToLowerCase(LabelQrId), A1),
                    LineOf(ToLowerCase(LabelBatchId), B1),
                    LineOf(ToLowerCase(LabelPoints), <<"5", "0">>),
                    UrlLine>>)
      [] name = "upper-case labels" ->
             Join(<<LineOf(ToUpperCase(LabelQrId), A1),
                    LineOf(ToUpperCase(LabelBatchId), B1),
                    LineOf(ToUpperCase(LabelPoints), <<"5", "0">>),
                    UrlLine>>)
      [] name = "order 132" -> Join(<<Canon[1], Canon[3], Canon[2], UrlLine>>)
      [] name = "order 213" -> Join(<<Canon[2], UrlLine, Canon[1], Canon[3]>>)
      [] name = "order 231" -> Join(<<Canon[2], Canon[3], UrlLine, Canon[1]>>)
      [] name = "order 312" -> Join(<<UrlLine, Canon[3], Canon[1], Canon[2]>>)
      [] name = "order 321" -> Join(<<Canon[3], Canon[2], Canon[1]>>)
      [] name = "padded" ->
             Join(<< <<" ", " ">> \o LabelQrId \o <<" ", " ", " ">> \o A1
                        \o <<" ", "\r">>,
                     <<"\t">> \o LabelBatchId \o B1 \o <<"\t", "\r">>,
                     <<" ">> \o LabelPoints \o <<"\t", " ">> \o <<"5", "0">>
                        \o <<" ", " ">>,
                     UrlLine >>)
      [] name = "other labels" ->
             Join(<< <<"N", "a", "m", "e", ":", " ", "x">>, Canon[1],
                     <<"E", "x", "p", "i", "r", "y", ":", " ", "9">>,
                     Canon[2], UrlLine, Canon[3] >>)
      [] name = "duplicate labels" ->
             Join(<< Canon[1], LineOf(LabelQrId, A2),
                     Canon[2], LineOf(LabelBatchId, B2),
                     Canon[3], LineOf(LabelPoints, <<"7", "0">>) >>)

\* the scan requests the model sends: the id of the token and the qrData.
\* c1 and c2 are customers, c0 is an id without a record; the active batch
\* B1 holds A1 and A2, the inactive batch B2 holds A1 and A2, and there is
\* no code A9 and no batch B9
ScanRequests ==
    [user : {"c1"},
     qrData : {"A1 B1 50", "A2 B1 50", "A1 B2 50", "A2 B2 50", "A9 B1 50",
               "A1 B1 0", ""}]
    \cup [user : {"c2", "c0"}, qrData : {"A1 B1 50"}]

\* the scan requests sent when they are sent one after another
SeqRequests ==
    ScanRequests
    \cup [user : {"c1"}, qrData : {"A1 B1 70", "A1 B9 50"}]

\* the payloads sent to exercise the parse block: well-formed, with a line
\* missing, with points that are no positive integer, with labels in another
\* letter case, and the lines of "A1 B1 50" reordered, padded, mixed with
\* lines of other labels and duplicated
ParseRequests ==
    [user : {"c1", "c2", "c0"},
     qrData : {"A1 B1 50", "A1 B1 0", "no QR ID", "no Batch ID", "no Points",
               "Points 50abc", "Points 1.5", "Points 0x10", "Points abc",
               "Points -5", "lower-case labels", "upper-case labels",
               "order 132", "order 213", "order 231", "order 312",
               "order 321", "padded", "other labels", "duplicate labels"}]

\* the PATCH requests the model sends: points is Null for a body whose
\* points are no number
PatchRequests ==
    { [username |-> "alice", points |-> Some(100), operation |-> "add"],
      [username |-> "alice", points |-> Some(0 - 100), operation |-> "add"],
      [username |-> "alice", points |-> Some(100), operation |-> "subtract"],
      [username |-> "alice", points |-> Some(0 - 10), operation |-> "set"],
      [username |-> "nobody", points |-> Some(100), operation |-> "set"],
      [username |-> "alice", points |-> Null, operation |-> "set"] }

\* the PATCH requests sent when they are sent one after another
AdjustRequests ==
    [username : {"alice"},
     points : {Some(0 - 10), Some(0), Some(20), Some(100)},
     operation : {"set", "add", "subtract"}]
    \cup { [username |-> "nobody", points |-> Some(100), operation |-> "set"],
           [username |-> "alice", points |-> Null, operation |-> "set"] }

\* the usernames a GET names
Usernames == {"alice", "bob", "nobody"}

\* a request that has not arrived; the fields are the inputs (kind, user,
\* qrData, username, body, operation), the position pc, the handler's
\* locals and the response
NoReq ==
    [kind |-> "idle", pc |-> "idle", user |-> "", qrData |-> "",
     username |-> "", body |-> Null, operation |-> "",
     qrId |-> <<>>, batchId |-> <<>>, points |-> 0,
     qrBatch |-> Null, qrCode |-> 0, customer |-> Null,
     newPoints |-> 0, res |-> Null]

InitCustomer ==
    [id \in {"c1", "c2"} |->
        IF id = "c1" THEN [username |-> "alice", points |-> 30]
                     ELSE [username |-> "bob", points |-> 0]]

\* an active batch of two fresh codes and an inactive batch holding a
\* scanned and a fresh code
InitQRBatch ==
    [b \in {B1, B2} |->
        IF b = B1
        THEN [batchId |-> B1, qrData |-> "Points 50",
              qrCodes |-> << [qrId |-> A1, isScanned |-> FALSE],
                             [qrId |-> A2, isScanned |-> FALSE] >>,
              isActive |-> TRUE]
        ELSE [batchId |-> B2, qrData |-> "Points 50",
              qrCodes |-> << [qrId |-> A1, isScanned |-> TRUE],
                             [qrId |-> A2, isScanned |-> FALSE] >>,
              isActive |-> FALSE]]

Init ==
    /\ Customer = InitCustomer
    /\ QRBatch = InitQRBatch
    /\ req = [r \in Reqs |-> NoReq]
    /\ credited = {}

(***************************************************************************)
(* Store operations.                                                       *)
(***************************************************************************)
\* a lookup that forgets the isActive filter
FindOneBatchAnyState(coll, batchId) ==
    IF batchId \in DOMAIN coll THEN Some(coll[batchId]) ELSE Null

\* QRBatch.findOne({ batchId: batchId, isActive: true })
FindOneBatch(coll, batchId) ==
    IF batchId \in DOMAIN coll /\ coll[batchId].isActive
    THEN Some(coll[batchId])
    ELSE Null

\* qrCodes.find(qr => qr.qrId === qrId): the position of the first entry
\* with that id, 0 when there is none
FindQrCode(qrCodes, qrId) ==
    IF \E i \in DOMAIN qrCodes : qrCodes[i].qrId = qrId
    THEN CHOOSE i \in DOMAIN qrCodes :
            /\ qrCodes[i].qrId = qrId
            /\ \A j \in 1..(i - 1) : qrCodes[j].qrId # qrId
    ELSE 0

\* an update that overwrites the balance with the points ({ points: points })
OverwritePointsById(coll, id, points) ==
    [coll EXCEPT ![id].points = points]

\* an increment whose filter matches every customer
IncPointsOfAll(coll, id, points) ==
    [c \in DOMAIN coll |-> [coll[c] EXCEPT !.points = @ + points]]

\* Customer.findByIdAndUpdate(id, { $inc: { points: points } }): one atomic
\* increment of the stored balance
IncPointsById(coll, id, points) ==
    [coll EXCEPT ![id].points = @ + points]

\* a save that writes the whole loaded document back
SaveWholeDoc(coll, doc, i) ==
    [coll EXCEPT ![doc.batchId] = doc]

\* a save that writes the whole qrCodes array of the loaded document
SaveCodesArray(coll, doc, i) ==
    [coll EXCEPT ![doc.batchId].qrCodes = doc.qrCodes]

\* a save that loses the mark
SaveWithoutMark(coll, doc, i) ==
    coll

\* qrBatch.save() after `qrCode.isScanned = true`: the document has one
\* modified path, qrCodes.<i>.isScanned, and save writes that path alone
\* (the schema has no version key, so nothing else is compared or written)
SaveBatchDoc(coll, doc, i) ==
    [coll EXCEPT ![doc.batchId].qrCodes[i].isScanned = doc.qrCodes[i].isScanned]

\* Customer.findOne({ username })
FindOneByUsername(coll, username) ==
    IF \E id \in DOMAIN coll : coll[id].username = username
    THEN Some(CHOOSE id \in DOMAIN coll : coll[id].username = username)
    ELSE Null

\* Customer.findOneAndUpdate({ username }, { points: newPoints }): the
\* stored balance is overwritten (update validators are not run)
SetPointsById(coll, id, newPoints) ==
    [coll EXCEPT ![id].points = newPoints]

(***************************************************************************)
(* Responses.                                                              *)
(***************************************************************************)
MsgRequired == "QR data is required"

MsgFormat == "Invalid QR code format. Expected format: QR ID, Batch ID, Points, URL"

MsgBatch == "QR batch not found or inactive"

MsgCode == "QR code not found in batch"

MsgScanned == "This QR code has already been scanned and redeemed"

MsgCustomer == "Customer not found"

MsgEarned == "Successfully earned ${points} points!"

MsgError == "Internal server error"

MsgNumber == "Points must be a number"

MsgPatched == "Customer points ${operation} successfully"

\* res.status(status).json({ success: false, message })
Failure(status, message) ==
    Some([status |-> status, success |-> FALSE, message |-> message,
          data |-> Null])

\* res.status(200).json({ success: true, message, data })
Success(message, data) ==
    Some([status |-> 200, success |-> TRUE, message |-> message,
          data |-> Some(data)])

\* the handler has answered and returned: its locals are gone, the request
\* and its response remain
Answered(q, res) ==
    [NoReq EXCEPT !.kind = q.kind, !.user = q.user, !.qrData = q.qrData,
                  !.username = q.username, !.body = q.body,
                  !.operation = q.operation, !.pc = "done", !.res = res]

\* the r-th request arrives once the ones before it have
NextToArrive(r) ==
    /\ req[r].pc = "idle"
    /\ IF r = 1 THEN TRUE ELSE req[r - 1].pc # "idle"

(***************************************************************************)
(* POST /api/scan-qr                                                       *)
(***************************************************************************)
\* the request arrives: the qrData check and the parse block, then the
\* batch lookup is issued
ScanQrOf(r, requests) ==
    /\ NextToArrive(r)
    /\ \E q \in requests :
         LET parsed  == ParseQrData(Text(q.qrData))
             arrived == [NoReq EXCEPT !.kind = "scan", !.user = q.user,
                                      !.qrData = q.qrData]
         IN  req' = [req EXCEPT ![r] =
                 IF Text(q.qrData) = <<>>
                 THEN Answered(arrived, Failure(400, MsgRequired))
                 ELSE IF parsed = Null
                 THEN Answered(arrived, Failure(400, MsgFormat))
                 ELSE [arrived EXCEPT !.pc = "findBatch",
                                      !.qrId = parsed[1].qrId,
                                      !.batchId = parsed[1].batchId,
                                      !.points = parsed[1].points]]
    /\ UNCHANGED <<Customer, QRBatch, credited>>

\* a handler that issues the increment without the isScanned check
FindBatchUnchecked(r) ==
    /\ req[r].kind = "scan"
    /\ req[r].pc = "findBatch"
    /\ LET qrBatch == FindOneBatch(QRBatch, req[r].batchId)
           qrCode  == IF qrBatch = Null THEN 0
                      ELSE FindQrCode(qrBatch[1].qrCodes, req[r].qrId)
       IN  req' = [req EXCEPT ![r] =
               IF qrBatch = Null
               THEN Answered(@, Failure(404, MsgBatch))
               ELSE IF qrCode = 0
               THEN Answered(@, Failure(404, MsgCode))
               ELSE [@ EXCEPT !.pc = "incPoints", !.qrBatch = qrBatch,
                              !.qrCode = qrCode]]
    /\ UNCHANGED <<Customer, QRBatch, credited>>

\* a handler that credits the caller as soon as the entry is found, before
\* the isScanned check
FindBatchCreditsFirst(r) ==
    /\ req[r].kind = "scan"
    /\ req[r].pc = "findBatch"
    /\ LET qrBatch == FindOneBatch(QRBatch, req[r].batchId)
           qrCode  == IF qrBatch = Null THEN 0
                      ELSE FindQrCode(qrBatch[1].qrCodes, req[r].qrId)
           credit  == qrCode # 0 /\ req[r].user \in DOMAIN Customer
       IN  /\ req' = [req EXCEPT ![r] =
                  IF qrBatch = Null
                  THEN Answered(@, Failure(404, MsgBatch))
                  ELSE IF qrCode = 0
                  THEN Answered(@, Failure(404, MsgCode))
                  ELSE IF qrBatch[1].qrCodes[qrCode].isScanned
                  THEN Answered(@, Failure(400, MsgScanned))
                  ELSE [@ EXCEPT !.pc = "incPoints", !.qrBatch = qrBatch,
                                 !.qrCode = qrCode]]
           /\ Customer' = IF credit
                          THEN [Customer EXCEPT
                                  ![req[r].user].points = @ + req[r].points]
                          ELSE Customer
    /\ UNCHANGED <<QRBatch, credited>>

\* a handler that looks for the customer before the isScanned check
FindBatchCustomerFirst(r) ==
    /\ req[r].kind = "scan"
    /\ req[r].pc = "findBatch"
    /\ LET qrBatch == FindOneBatch(QRBatch, req[r].batchId)
           qrCode  == IF qrBatch = Null THEN 0
                      ELSE FindQrCode(qrBatch[1].qrCodes, req[r].qrId)
       IN  req' = [req EXCEPT ![r] =
               IF qrBatch = Null
               THEN Answered(@, Failure(404, MsgBatch))
               ELSE IF qrCode = 0
               THEN Answered(@, Failure(404, MsgCode))
               ELSE IF req[r].user \notin DOMAIN Customer
               THEN Answered(@, Failure(404, MsgCustomer))
               ELSE IF qrBatch[1].qrCodes[qrCode].isScanned
               THEN Answered(@, Failure(400, MsgScanned))
               ELSE [@ EXCEPT !.pc = "incPoints", !.qrBatch = qrBatch,
                              !.qrCode = qrCode]]
    /\ UNCHANGED <<Customer, QRBatch, credited>>

ScanQr(r) == ScanQrOf(r, ScanRequests)

\* the batch lookup returns: the batch, entry and isScanned checks, then
\* the balance increment is issued
FindBatch(r) ==
    /\ req[r].kind = "scan"
    /\ req[r].pc = "findBatch"
    /\ LET qrBatch == FindOneBatch(QRBatch, req[r].batchId)
           qrCode  == IF qrBatch = Null THEN 0
                      ELSE FindQrCode(qrBatch[1].qrCodes, req[r].qrId)
       IN  req' = [req EXCEPT ![r] =
               IF qrBatch = Null
               THEN Answered(@, Failure(404, MsgBatch))
               ELSE IF qrCode = 0
               THEN Answered(@, Failure(404, MsgCode))
               ELSE IF qrBatch[1].qrCodes[qrCode].isScanned
               THEN Answered(@, Failure(400, MsgScanned))
               ELSE [@ EXCEPT !.pc = "incPoints", !.qrBatch = qrBatch,
                              !.qrCode = qrCode]]
    /\ UNCHANGED <<Customer, QRBatch, credited>>

\* a handler that marks and saves the entry before it looks at the result
\* of the increment
IncPointsMarksFirst(r) ==
    /\ req[r].kind = "scan"
    /\ req[r].pc = "incPoints"
    /\ QRBatch' = [QRBatch EXCEPT
          ![req[r].batchId].qrCodes[req[r].qrCode].isScanned = TRUE]
    /\ IF req[r].user \in DOMAIN Customer
       THEN /\ Customer' = [Customer EXCEPT
                               ![req[r].user].points = @ + req[r].points]
            /\ credited' = credited \cup {r}
            /\ req' = [req EXCEPT ![r] =
                   [@ EXCEPT !.pc = "save",
                             !.customer = Some(Customer'[req[r].user]),
                             !.qrBatch[1].qrCodes[req[r].qrCode].isScanned = TRUE]]
       ELSE /\ req' = [req EXCEPT ![r] =
                   Answered(@, Failure(404, MsgCustomer))]
            /\ UNCHANGED <<Customer, credited>>

\* the increment returns: null for an id without a record; otherwise the
\* updated customer, the entry of the loaded document is marked and the
\* save is issued
IncPoints(r) ==
    /\ req[r].kind = "scan"
    /\ req[r].pc = "incPoints"
    /\ IF req[r].user \in DOMAIN Customer
       THEN /\ Customer' = IncPointsById(Customer, req[r].user, req[r].points)
            /\ credited' = credited \cup {r}
            /\ req' = [req EXCEPT ![r] =
                   [@ EXCEPT !.pc = "save",
                             !.customer = Some(Customer'[req[r].user]),
                             !.qrBatch[1].qrCodes[req[r].qrCode].isScanned = TRUE]]
       ELSE /\ req' = [req EXCEPT ![r] =
                   Answered(@, Failure(404, MsgCustomer))]
            /\ UNCHANGED <<Customer, credited>>
    /\ UNCHANGED QRBatch

\* the save returns: the success response
SaveBatch(r) ==
    /\ req[r].kind = "scan"
    /\ req[r].pc = "save"
    /\ QRBatch' = SaveBatchDoc(QRBatch, req[r].qrBatch[1], req[r].qrCode)
    /\ req' = [req EXCEPT ![r] =
           Answered(@, Success(MsgEarned,
               [pointsEarned |-> req[r].points,
                totalPoints  |-> req[r].customer[1].points,
                qrId         |-> req[r].qrId,
                batchId      |-> req[r].batchId,
                customer     |->
                    [id       |-> req[r].user,
                     username |-> req[r].customer[1].username,
                     points   |-> req[r].customer[1].points]]))]
    /\ UNCHANGED <<Customer, credited>>

\* a catch block that takes the points back when the save has failed
StoreErrorCompensates(r) ==
    /\ req[r].pc \in {"findBatch", "incPoints", "save",
                      "findCustomer", "updatePoints"}
    /\ req' = [req EXCEPT ![r] = Answered(@, Failure(500, MsgError))]
    /\ Customer' = IF req[r].pc = "save"
                   THEN [Customer EXCEPT
                           ![req[r].user].points = @ - req[r].points]
                   ELSE Customer
    /\ UNCHANGED <<QRBatch, credited>>

\* a catch block that answers a store failure as a client error
StoreErrorAsBadRequest(r) ==
    /\ req[r].pc \in {"findBatch", "incPoints", "save",
                      "findCustomer", "updatePoints"}
    /\ req' = [req EXCEPT ![r] = Answered(@, Failure(400, MsgError))]
    /\ UNCHANGED <<Customer, QRBatch, credited>>

\* a catch block that starts the handler's store operations again when the
\* increment has failed
StoreErrorRetries(r) ==
    /\ req[r].pc \in {"findBatch", "incPoints", "save",
                      "findCustomer", "updatePoints"}
    /\ req' = [req EXCEPT ![r] =
           IF req[r].pc = "incPoints"
           THEN [@ EXCEPT !.pc = "findBatch", !.qrBatch = Null, !.qrCode = 0]
           ELSE Answered(@, Failure(500, MsgError))]
    /\ UNCHANGED <<Customer, QRBatch, credited>>

\* a store operation fails (it is not carried out) and its promise
\* rejects: the catch block answers 500
StoreError(r) ==
    /\ req[r].pc \in {"findBatch", "incPoints", "save",
                      "findCustomer", "updatePoints"}
    /\ req' = [req EXCEPT ![r] = Answered(@, Failure(500, MsgError))]
    /\ UNCHANGED <<Customer, QRBatch, credited>>

(***************************************************************************)
(* GET and PATCH /api/customers/:username/points                           *)
(***************************************************************************)
\* the answer of GET .../points when its findOne reads the present store
GetPointsResponse(username) ==
    LET id == FindOneByUsername(Customer, username)
    IN  IF id = Null THEN Failure(404, MsgCustomer)
        ELSE Success("",
                 [username |-> Customer[id[1]].username,
                  points   |-> Customer[id[1]].points])

\* a client reads a balance: one findOne, no write
GetPoints ==
    /\ \E username \in Usernames : GetPointsResponse(username) # Null
    /\ UNCHANGED vars

\* a switch whose subtract branch has lost its floor
NewPointsUnclamped(operation, current, points) ==
    CASE operation = "add"      -> current + points
      [] operation = "subtract" -> current - points
      [] OTHER                  -> IF points > 0 THEN points ELSE 0

\* the switch on the operation
NewPoints(operation, current, points) ==
    CASE operation = "add"      -> current + points
      [] operation = "subtract" -> IF current - points > 0
                                   THEN current - points ELSE 0
      [] OTHER                  -> IF points > 0 THEN points ELSE 0

\* the request arrives: the typeof check, then the lookup is issued
PatchPointsOf(r, requests) ==
    /\ NextToArrive(r)
    /\ \E q \in requests :
         LET arrived == [NoReq EXCEPT !.kind = "patch",
                                      !.username = q.username,
                                      !.body = q.points,
                                      !.operation = q.operation]
         IN  req' = [req EXCEPT ![r] =
                 IF q.points = Null
                 THEN Answered(arrived, Failure(400, MsgNumber))
                 ELSE [arrived EXCEPT !.pc = "findCustomer",
                                      !.points = q.points[1]]]
    /\ UNCHANGED <<Customer, QRBatch, credited>>

PatchPoints(r) == PatchPointsOf(r, PatchRequests)

\* a handler with a one-time-use guard: an adjustment that has been applied
\* before is not applied again
FindCustomerOnce(r) ==
    /\ req[r].kind = "patch"
    /\ req[r].pc = "findCustomer"
    /\ LET id == FindOneByUsername(Customer, req[r].username)
           applied == \E s \in Reqs :
                         /\ s # r
                         /\ req[s].kind = "patch"
                         /\ req[s].pc = "done"
                         /\ req[s].res[1].status = 200
                         /\ req[s].username = req[r].username
                         /\ req[s].body = req[r].body
                         /\ req[s].operation = req[r].operation
       IN  req' = [req EXCEPT ![r] =
               IF id = Null
               THEN Answered(@, Failure(404, MsgCustomer))
               ELSE IF applied
               THEN Answered(@, Failure(400, MsgNumber))
               ELSE [@ EXCEPT !.pc = "updatePoints",
                              !.user = id[1],
                              !.customer = Some(Customer[id[1]]),
                              !.newPoints = NewPoints(req[r].operation,
                                                Customer[id[1]].points,
                                                req[r].points)]]
    /\ UNCHANGED <<Customer, QRBatch, credited>>

\* the lookup returns: 404 for an unknown username; otherwise the new
\* balance is computed from the balance just read and the update is issued
FindCustomer(r) ==
    /\ req[r].kind = "patch"
    /\ req[r].pc = "findCustomer"
    /\ LET id == FindOneByUsername(Customer, req[r].username)
       IN  req' = [req EXCEPT ![r] =
               IF id = Null
               THEN Answered(@, Failure(404, MsgCustomer))
               ELSE [@ EXCEPT !.pc = "updatePoints",
                              !.user = id[1],
                              !.customer = Some(Customer[id[1]]),
                              !.newPoints = NewPoints(req[r].operation,
                                                Customer[id[1]].points,
                                                req[r].points)]]
    /\ UNCHANGED <<Customer, QRBatch, credited>>

\* the update returns: the response with the previous and current balance
UpdatePoints(r) ==
    /\ req[r].kind = "patch"
    /\ req[r].pc = "updatePoints"
    /\ Customer' = SetPointsById(Customer, req[r].user, req[r].newPoints)
    /\ req' = [req EXCEPT ![r] =
           Answered([@ EXCEPT !.user = ""], Success(MsgPatched,
               [username       |-> Customer'[req[r].user].username,
                previousPoints |-> req[r].customer[1].points,
                currentPoints  |-> Customer'[req[r].user].points,
                operation      |-> req[r].operation]))]
    /\ UNCHANGED <<QRBatch, credited>>

(***************************************************************************)
(* The server: requests arrive one after another and run concurrently.     *)
(***************************************************************************)
Next ==
    \/ \E r \in Reqs : ScanQr(r)
    \/ \E r \in Reqs : FindBatch(r)
    \/ \E r \in Reqs : IncPoints(r)
    \/ \E r \in Reqs : SaveBatch(r)
    \/ \E r \in Reqs : StoreError(r)
    \/ \E r \in Reqs : PatchPoints(r)
    \/ \E r \in Reqs : FindCustomer(r)
    \/ \E r \in Reqs : UpdatePoints(r)
    \/ GetPoints

Spec == Init /\ [][Next]_vars

(***************************************************************************)
(* Redemptions sent one after another, with no store failure: a scan       *)
(* request arrives only when every earlier request has been answered.      *)
(***************************************************************************)
NoneInFlight == \A r \in Reqs : req[r].pc \in {"idle", "done"}

NextSeq ==
    \/ \E r \in Reqs : NoneInFlight /\ ScanQrOf(r, SeqRequests)
    \/ \E r \in Reqs : FindBatch(r)
    \/ \E r \in Reqs : IncPoints(r)
    \/ \E r \in Reqs : SaveBatch(r)

SpecSeq == Init /\ [][NextSeq]_vars

(***************************************************************************)
(* Overlapping scan requests whose store round-trips are scheduled fairly: *)
(* a store operation that has been issued returns or fails.                *)
(***************************************************************************)
NextScan ==
    \/ \E r \in Reqs : ScanQr(r)
    \/ \E r \in Reqs : FindBatch(r)
    \/ \E r \in Reqs : IncPoints(r)
    \/ \E r \in Reqs : SaveBatch(r)
    \/ \E r \in Reqs : StoreError(r)

\* the store answers request r
RoundTrip(r) == FindBatch(r) \/ IncPoints(r) \/ SaveBatch(r) \/ StoreError(r)

SpecFair ==
    /\ Init
    /\ [][NextScan]_vars
    /\ \A r \in Reqs : WF_vars(RoundTrip(r))

(***************************************************************************)
(* One scan request with a payload of ParseRequests, with no store         *)
(* failure: the parse block applied to each payload.                       *)
(***************************************************************************)
NextParse ==
    \/ \E r \in {1} : ScanQrOf(r, ParseRequests)
    \/ \E r \in Reqs : FindBatch(r)
    \/ \E r \in Reqs : IncPoints(r)
    \/ \E r \in Reqs : SaveBatch(r)

SpecParse == Init /\ [][NextParse]_vars

(***************************************************************************)
(* Point adjustments sent one after another, with no store failure.        *)
(***************************************************************************)
NextAdjust ==
    \/ \E r \in Reqs : NoneInFlight /\ PatchPointsOf(r, AdjustRequests)
    \/ \E r \in Reqs : FindCustomer(r)
    \/ \E r \in Reqs : UpdatePoints(r)

SpecAdjust == Init /\ [][NextAdjust]_vars

(***************************************************************************)
(* Vocabulary of the properties.                                           *)
(***************************************************************************)
\* what the parse block makes of each qrData sent
ParsedText ==
    [name \in { q.qrData : q \in SeqRequests \cup ParseRequests } |->
        ParseQrData(Text(name))]

\* the triple the qrData of scan request r parses to (Null: malformed)
Parsed(r) == ParsedText[req[r].qrData]

\* scan request r carries a well-formed payload naming code qrId of batchId
Names(r, batchId, qrId) ==
    /\ req[r].kind = "scan"
    /\ Parsed(r) # Null
    /\ Parsed(r)[1].batchId = batchId
    /\ Parsed(r)[1].qrId = qrId

\* the (batchId, qrId) pairs of the stored codes
Codes ==
    { <<b, InitQRBatch[b].qrCodes[i].qrId>> :
        b \in DOMAIN InitQRBatch, i \in {1, 2} }

ActiveCodes == { c \in Codes : InitQRBatch[c[1]].isActive }

\* the isScanned flag of a stored code
IsScanned(coll, batchId, qrId) ==
    coll[batchId].qrCodes[FindQrCode(coll[batchId].qrCodes, qrId)].isScanned

Answer(r) == req[r].res[1]

Done(r) == req[r].pc = "done"

Succeeded(r) == Done(r) /\ Answer(r).status = 200

AlreadyRedeemed(r) == Done(r) /\ req[r].res = Failure(400, MsgScanned)

RECURSIVE SumPoints(_)
\* the point values of the payloads of a set of scan requests, added up
SumPoints(S) ==
    IF S = {} THEN 0
    ELSE LET r == CHOOSE x \in S : TRUE
         IN  Parsed(r)[1].points + SumPoints(S \ {r})

RECURSIVE TotalPoints(_, _)
\* the balances of the customers ids, added up
TotalPoints(coll, ids) ==
    IF ids = {} THEN 0
    ELSE LET id == CHOOSE x \in ids : TRUE
         IN  coll[id].points + TotalPoints(coll, ids \ {id})

\* a request before r has redeemed the code with success
RedeemedBefore(r, batchId, qrId) ==
    \E s \in 1..(r - 1) : Names(s, batchId, qrId) /\ Succeeded(s)

\* the requests whose increment was applied for the code
CreditedFor(batchId, qrId) ==
    { r \in credited : Names(r, batchId, qrId) }

(***************************************************************************)
(* C1.  N >= 2 concurrent requests with one payload naming a fresh code of *)
(* the active batch, sent by existing customers: exactly one succeeds, the *)
(* others are rejected as already redeemed, and the balances rise by one   *)
(* point value in total.  (Stated of the runs in which every slot carries  *)
(* that payload and no store operation failed.)                            *)
(***************************************************************************)
C1_ExactlyOneRedemption ==
    \A c \in ActiveCodes :
        ( /\ MaxReq >= 2
          /\ \A r \in Reqs :
                /\ Names(r, c[1], c[2])
                /\ req[r].qrData = req[1].qrData
                /\ req[r].user \in DOMAIN Customer
                /\ Done(r)
                /\ Answer(r).status # 500 )
        => /\ Cardinality({ r \in Reqs : Succeeded(r) }) = 1
           /\ \A r \in Reqs : Succeeded(r) \/ AlreadyRedeemed(r)
           /\ TotalPoints(Customer, DOMAIN Customer)
                = TotalPoints(InitCustomer, DOMAIN Customer)
                  + Parsed(1)[1].points

(***************************************************************************)
(* C2.  In every reachable state the point value of a code has been added  *)
(* to the balances at most once, whatever the attempts, failed saves and   *)
(* retries.                                                                *)
(***************************************************************************)
C2_CreditedAtMostOnce ==
    \A c \in Codes : Cardinality(CreditedFor(c[1], c[2])) <= 1

(***************************************************************************)
(* C3.  Requests sent one after another, no store failure: a request for a *)
(* code of the active batch that an earlier request has redeemed is        *)
(* rejected as already redeemed; one for a code not yet redeemed, sent by  *)
(* an existing customer, succeeds; each code is credited at most once and  *)
(* every balance is the starting balance plus the point values credited.   *)
(***************************************************************************)
C3_SequentialReplay ==
    /\ \A r \in Reqs, c \in ActiveCodes :
          Names(r, c[1], c[2]) /\ Done(r) =>
             IF RedeemedBefore(r, c[1], c[2])
             THEN AlreadyRedeemed(r)
             ELSE req[r].user \in DOMAIN Customer => Succeeded(r)
    /\ \A c \in Codes : Cardinality(CreditedFor(c[1], c[2])) <= 1
    /\ \A id \in DOMAIN Customer :
          Customer[id].points =
             InitCustomer[id].points
             + SumPoints({ r \in credited : req[r].user = id })

\* the payload was sent twice by one customer: success, then the rejection,
\* and the balance one point value up
C3_Replayed ==
    \E r \in Reqs, s \in Reqs :
        /\ r < s
        /\ req[r].kind = "scan"
        /\ req[s].qrData = req[r].qrData
        /\ req[s].user = req[r].user
        /\ Succeeded(r)
        /\ AlreadyRedeemed(s)
        /\ Customer[req[r].user].points
             = InitCustomer[req[r].user].points + Parsed(r)[1].points

(***************************************************************************)
(* C4.  isScanned is monotonic: no step of any interleaving of redemptions *)
(* and point adjustments takes an entry's flag from true back to false     *)
(* (so it goes from false to true at most once).                           *)
(***************************************************************************)
C4_IsScannedMonotonic ==
    [][ \A c \in Codes :
           IsScanned(QRBatch, c[1], c[2]) => IsScanned(QRBatch', c[1], c[2])
      ]_vars

\* a code was redeemed and a point adjustment was applied
C4_MarkedAndAdjusted ==
    /\ \E c \in ActiveCodes : IsScanned(QRBatch, c[1], c[2])
    /\ \E r \in Reqs : req[r].kind = "patch" /\ Succeeded(r)

\* the code the payload of scan request r names
CodeOf(r) == <<Parsed(r)[1].batchId, Parsed(r)[1].qrId>>

(***************************************************************************)
(* C5.  As claimed: no state, which a GET of the customer's points may     *)
(* read, has the credit for a code in the balance while the code's         *)
(* isScanned is still false.                                               *)
(***************************************************************************)
C5_NoCreditBeforeMark ==
    \A r \in credited : IsScanned(QRBatch, CodeOf(r)[1], CodeOf(r)[2])

(***************************************************************************)
(* C5, amended.  The order is fixed, credit first and mark second: a code  *)
(* that a redemption has marked has been credited, and a credited code is  *)
(* still unmarked only while the crediting request waits for its save, or  *)
(* after that request has answered 500.                                    *)
(***************************************************************************)
C5_CreditThenMark ==
    /\ \A c \in ActiveCodes :
          IsScanned(QRBatch, c[1], c[2]) => CreditedFor(c[1], c[2]) # {}
    /\ \A r \in credited :
          \/ IsScanned(QRBatch, CodeOf(r)[1], CodeOf(r)[2])
          \/ req[r].pc = "save"
          \/ req[r].res = Failure(500, MsgError)

\* the window: a GET answers with the credited balance while the code is
\* unmarked and the save is still to come
C5_Window ==
    \E r \in credited :
        /\ req[r].pc = "save"
        /\ ~IsScanned(QRBatch, CodeOf(r)[1], CodeOf(r)[2])
        /\ req[r].user = "c1"
        /\ GetPointsResponse("alice")[1].data[1].points
             = InitCustomer["c1"].points + Parsed(r)[1].points

(***************************************************************************)
(* C6.  A save that fails after the increment of the same request ends the *)
(* request with the 500 answer; that step changes no balance (the credit   *)
(* stays) and no batch, the code stays unmarked unless another request has *)
(* been credited for it, and the handler does nothing further: a request   *)
(* waiting for its save only ends, and an answered request never moves.    *)
(***************************************************************************)
C6_FailedSave ==
    [][ \A r \in Reqs :
          /\ ( /\ req[r].kind = "scan"
               /\ req[r].pc = "save"
               /\ req'[r] # req[r] )
             => /\ req'[r].pc = "done"
                /\ req'[r].res[1].status # 200
                   => /\ req'[r].res = Failure(500, MsgError)
                      /\ r \in credited'
                      /\ Customer' = Customer
                      /\ QRBatch' = QRBatch
                      /\ CreditedFor(CodeOf(r)[1], CodeOf(r)[2]) = {r}
                         => ~IsScanned(QRBatch', CodeOf(r)[1], CodeOf(r)[2])
          /\ req[r].pc = "done" => req'[r] = req[r]
      ]_vars

\* a save has failed: 500, the points are in the balance, the code unmarked
C6_SaveFailed ==
    \E r \in credited :
        /\ req[r].res = Failure(500, MsgError)
        /\ ~IsScanned(QRBatch, CodeOf(r)[1], CodeOf(r)[2])
        /\ Customer[req[r].user].points
             = InitCustomer[req[r].user].points + Parsed(r)[1].points

(***************************************************************************)
(* C7.  A scan request of an id without a customer record changes nothing  *)
(* in the store at any of its steps; when it finds its code unredeemed in  *)
(* an active batch it goes on to the increment, and there it is rejected   *)
(* with 404 "Customer not found" (or 500 when the store fails).            *)
(***************************************************************************)
C7_CustomerNotFound ==
    [][ \A r \in Reqs :
          ( /\ req'[r].kind = "scan"
            /\ req'[r].user \notin DOMAIN Customer
            /\ req'[r] # req[r] )
          => /\ Customer' = Customer
             /\ QRBatch' = QRBatch
             /\ credited' = credited
             /\ ( /\ req[r].pc = "findBatch"
                  /\ CodeOf(r) \in ActiveCodes
                  /\ ~IsScanned(QRBatch, CodeOf(r)[1], CodeOf(r)[2]) )
                => \/ req'[r].pc = "incPoints"
                   \/ req'[r].res = Failure(500, MsgError)
             /\ req[r].pc = "incPoints"
                => \/ req'[r].res = Failure(404, MsgCustomer)
                   \/ req'[r].res = Failure(500, MsgError)
      ]_vars

\* the rejection happened and the code is still unredeemed
C7_Rejected ==
    \E r \in Reqs :
        /\ req[r].kind = "scan"
        /\ req[r].user \notin DOMAIN Customer
        /\ req[r].res = Failure(404, MsgCustomer)
        /\ ~IsScanned(QRBatch, CodeOf(r)[1], CodeOf(r)[2])
        /\ Customer = InitCustomer

(***************************************************************************)
(* C8.  The step that ends a scan request with the answer for a malformed  *)
(* payload, a batch not found, a code not found or a code already scanned  *)
(* changes no balance and no batch, and that request has never been        *)
(* credited.                                                               *)
(***************************************************************************)
Rejections ==
    { Failure(400, MsgRequired), Failure(400, MsgFormat),
      Failure(404, MsgBatch), Failure(404, MsgCode),
      Failure(400, MsgScanned) }

C8_RejectionsChangeNothing ==
    [][ \A r \in Reqs :
          ( /\ req'[r].kind = "scan"
            /\ req[r].pc # "done"
            /\ req'[r].pc = "done"
            /\ req'[r].res \in Rejections )
          => /\ Customer' = Customer
             /\ QRBatch' = QRBatch
             /\ r \notin credited'
      ]_vars

\* a request was rejected as already redeemed after another one succeeded
C8_RejectedAfterSuccess ==
    \E r \in Reqs, s \in Reqs :
        /\ Succeeded(s)
        /\ AlreadyRedeemed(r)
        /\ req[r].qrData = req[s].qrData

(***************************************************************************)
(* C9.  A code of an inactive batch is never redeemed: the batch document  *)
(* never changes, and a scan request naming the batch never gets past the  *)
(* batch lookup, is answered 404 "QR batch not found or inactive" (or 500  *)
(* when the store fails) and is never credited.                            *)
(***************************************************************************)
C9_InactiveBatchGated ==
    \A b \in DOMAIN QRBatch :
        ~InitQRBatch[b].isActive =>
           /\ QRBatch[b] = InitQRBatch[b]
           /\ \A r \in Reqs :
                 ( /\ req[r].kind = "scan"
                   /\ Parsed(r) # Null
                   /\ Parsed(r)[1].batchId = b )
                 => /\ req[r].pc \in {"findBatch", "done"}
                    /\ r \notin credited
                    /\ Done(r) => \/ req[r].res = Failure(404, MsgBatch)
                                  \/ req[r].res = Failure(500, MsgError)

\* the scanned and the unscanned code of the inactive batch were both
\* asked for and both rejected
C9_BothRejected ==
    \E r \in Reqs, s \in Reqs :
        /\ req[r].qrData = "A1 B2 50"
        /\ req[s].qrData = "A2 B2 50"
        /\ req[r].res = Failure(404, MsgBatch)
        /\ req[s].res = Failure(404, MsgBatch)
        /\ IsScanned(QRBatch, B2, A1)
        /\ ~IsScanned(QRBatch, B2, A2)

(***************************************************************************)
(* C10.  One redemption at a time, no store failure.  A request of an      *)
(* existing customer that finds its code unredeemed in an active batch     *)
(* goes on to the increment; the increment adds exactly the payload's      *)
(* points to the caller's balance and to no other; the save marks the      *)
(* entry and the request answers 200 with pointsEarned = the points,       *)
(* totalPoints = the caller's balance, and the parsed qrId and batchId.    *)
(***************************************************************************)
C10_SingleRedemption ==
    [][ \A r \in Reqs :
          ( /\ req[r].kind = "scan"
            /\ req[r].user \in DOMAIN Customer
            /\ req'[r] # req[r] )
          => /\ ( /\ req[r].pc = "findBatch"
                  /\ FindOneBatch(QRBatch, CodeOf(r)[1]) # Null
                  /\ FindQrCode(QRBatch[CodeOf(r)[1]].qrCodes, CodeOf(r)[2]) # 0
                  /\ ~IsScanned(QRBatch, CodeOf(r)[1], CodeOf(r)[2]) )
                => req'[r].pc = "incPoints"
             /\ req[r].pc = "incPoints"
                => /\ req'[r].pc = "save"
                   /\ Customer'[req[r].user].points
                        = Customer[req[r].user].points + Parsed(r)[1].points
                   /\ \A id \in DOMAIN Customer \ {req[r].user} :
                         Customer'[id] = Customer[id]
             /\ req[r].pc = "save"
                => /\ req'[r].pc = "done"
                   /\ req'[r].res[1].status = 200
                   /\ req'[r].res[1].success
                   /\ req'[r].res[1].data[1].pointsEarned = Parsed(r)[1].points
                   /\ req'[r].res[1].data[1].totalPoints
                        = Customer'[req[r].user].points
                   /\ req'[r].res[1].data[1].qrId = CodeOf(r)[2]
                   /\ req'[r].res[1].data[1].batchId = CodeOf(r)[1]
                   /\ IsScanned(QRBatch', CodeOf(r)[1], CodeOf(r)[2])
                   /\ Customer' = Customer
      ]_vars

\* alice, at 30 points, has redeemed A1 of B1 for 50
C10_Redeemed ==
    \E r \in Reqs :
        /\ req[r].user = "c1"
        /\ req[r].qrData = "A1 B1 50"
        /\ Succeeded(r)
        /\ Answer(r).data[1].pointsEarned = 50
        /\ Answer(r).data[1].totalPoints = 80
        /\ Customer["c1"].points = 80
        /\ IsScanned(QRBatch, B1, A1)

(***************************************************************************)
(* C11.  Every customer's balance is non-negative in every reachable       *)
(* state, whatever redemptions and adjustments (set, add, subtract, with   *)
(* any integer points) have run.                                           *)
(***************************************************************************)
C11_NonNegativeBalance ==
    \A id \in DOMAIN Customer : Customer[id].points >= 0

Max(a, b) == IF a >= b THEN a ELSE b

\* the customer record the PATCH request r names (Null: none)
Target(r) == FindOneByUsername(Customer, req[r].username)

C13_AdjustmentBypassesRedemption ==
    [][ \A r \in Reqs :
          ( /\ req'[r].kind = "patch"
            /\ req'[r] # req[r] )
          => /\ QRBatch' = QRBatch
             /\ credited' = credited
             /\ ( /\ req[r].pc = "findCustomer"
                  /\ Target(r) # Null )
                => \/ req'[r].pc = "updatePoints"
                   \/ req'[r].res = Failure(500, MsgError)
             /\ req[r].pc = "updatePoints"
                => \/ /\ req'[r].res[1].status = 200
                      /\ Customer'[req[r].user].points = req[r].newPoints
                   \/ req'[r].res = Failure(500, MsgError)
      ]_vars

\* the same adjustment, add 100, was applied twice and counted twice
C13_AppliedTwice ==
    \E r \in Reqs, s \in Reqs :
        /\ r < s
        /\ req[r].kind = "patch"
        /\ req[r].operation = "add"
        /\ req[r].body = Some(100)
        /\ req[s].operation = "add"
        /\ req[s].body = Some(100)
        /\ Succeeded(r)
        /\ Succeeded(s)
        /\ Customer["c1"].points = InitCustomer["c1"].points + 200
        /\ QRBatch = InitQRBatch

\* scan request r has been turned down by the parse block
Malformed(r) == Done(r) /\ req[r].res = Failure(400, MsgFormat)

\* scan request r has passed the parse block
WellFormed(r) ==
    /\ req[r].kind = "scan"
    /\ ~Malformed(r)
    /\ req[r].pc = "findBatch"
       => /\ Parsed(r) # Null
          /\ req[r].qrId = Parsed(r)[1].qrId
          /\ req[r].batchId = Parsed(r)[1].batchId
          /\ req[r].points = Parsed(r)[1].points

(***************************************************************************)
(* C14.  As claimed: a payload is turned down as malformed when a line of  *)
(* a required label is absent, or the text after "Points:" is not a        *)
(* base-10 integer (an optional sign and decimal digits, nothing else), or *)
(* that integer is <= 0; every other payload passes with its triple.       *)
(***************************************************************************)
C14_ParserRejects ==
    \A r \in Reqs :
        req[r].kind = "scan" =>
            LET lines    == Split(Text(req[r].qrData), "\n")
                Has(l)   == \E i \in DOMAIN lines :
                                StartsWith(Trim(lines[i]), l)
                line     == Trim(lines[CHOOSE i \in DOMAIN lines :
                               /\ StartsWith(Trim(lines[i]), LabelPoints)
                               /\ \A k \in 1..(i - 1) :
                                     ~StartsWith(Trim(lines[k]), LabelPoints)])
                value    == Trim(SubSeq(line, Len(LabelPoints) + 1, Len(line)))
                digits   == IF value # <<>> /\ value[1] \in {"-", "+"}
                            THEN Tail(value) ELSE value
                integer  == /\ digits # <<>>
                            /\ \A i \in DOMAIN digits : IsDigit(digits[i], 10)
                reject   == \/ ~Has(LabelQrId)
                            \/ ~Has(LabelBatchId)
                            \/ ~Has(LabelPoints)
                            \/ ~integer
                            \/ ParseInt(value)[1] <= 0
            IN  IF reject THEN Malformed(r) ELSE WellFormed(r)

(***************************************************************************)
(* C15.  As claimed: a payload whose label lines differ from "QR ID:",     *)
(* "Batch ID:" and "Points:" only in letter case passes the parse block    *)
(* with the triple of the payload in the canonical case.                   *)
(***************************************************************************)
C15_LabelsAnyCase ==
    \A r \in Reqs :
        ( /\ req[r].kind = "scan"
          /\ req[r].qrData \in {"lower-case labels", "upper-case labels"} )
        => /\ ToLowerCase(Text(req[r].qrData))
                = ToLowerCase(Join(Canon \o <<UrlLine>>))
           /\ ~Malformed(r)
           /\ req[r].pc = "findBatch"
              => /\ req[r].qrId = A1
                 /\ req[r].batchId = B1
                 /\ req[r].points = 50

\* the payloads that are the lines of "A1 B1 50" in another order, padded
\* with white space, mixed with lines of other labels, or followed by
\* second lines of the same labels
Variants ==
    {"order 132", "order 213", "order 231", "order 312", "order 321",
     "padded", "other labels", "duplicate labels"}

(***************************************************************************)
(* C16.  The triple does not depend on the order of the lines, on white    *)
(* space around the labels and the values, or on lines of other labels,    *)
(* and of several lines of one label the first counts: every such variant  *)
(* of the payload of code A1 of batch B1 with 50 points passes the parse   *)
(* block with the triple (A1, B1, 50), and its redemption earns 50.        *)
(***************************************************************************)
C16_TripleOfVariants ==
    \A r \in Reqs :
        ( /\ req[r].kind = "scan"
          /\ req[r].qrData \in Variants )
        => /\ ~Malformed(r)
           /\ req[r].pc # "done"
              => /\ req[r].qrId = A1
                 /\ req[r].batchId = B1
                 /\ req[r].points = 50
           /\ Succeeded(r) => Answer(r).data[1].pointsEarned = 50
           /\ Done(r) /\ req[r].user = "c1" => Succeeded(r)

\* each variant has been redeemed as code A1 of batch B1 for 50 points
C16_VariantRedeemed ==
    /\ \A n \in Variants : ParsedText[n] = ParsedText["A1 B1 50"]
    /\ \E r \in Reqs :
        /\ req[r].qrData = "duplicate labels"
        /\ Succeeded(r)
        /\ Answer(r).data[1].pointsEarned = 50
        /\ Answer(r).data[1].qrId = A1
        /\ IsScanned(QRBatch, B1, A1)
        /\ ~IsScanned(QRBatch, B1, A2)

\* scan request r answers on this step
Answers(r) ==
    /\ req'[r].kind = "scan"
    /\ req[r].pc # "done"
    /\ req'[r].pc = "done"

\* what the lookups of scan request r find in the present store
BatchFound(r) == FindOneBatch(QRBatch, req[r].batchId)

CodeFound(r) ==
    IF BatchFound(r) = Null THEN 0
    ELSE FindQrCode(BatchFound(r)[1].qrCodes, req[r].qrId)

(***************************************************************************)
(* C17.  Every answer of a redemption request is one of the eight          *)
(* outcomes, each with its status: no payload 400 and malformed payload    *)
(* 400, batch not found or inactive 404, code not in the batch 404,        *)
(* customer not found 404, already redeemed 400, store failure 500,        *)
(* success 200; each is sent for its cause, and success is false in all    *)
(* but the 200 answer.                                                     *)
(***************************************************************************)
C17_StatusOfOutcome ==
    [][ \A r \in Reqs :
          Answers(r) =>
            LET a == req'[r].res[1]
            IN  /\ a.success = (a.status = 200)
                /\ CASE a.message = MsgRequired ->
                          /\ a.status = 400
                          /\ Text(req'[r].qrData) = <<>>
                     [] a.message = MsgFormat ->
                          /\ a.status = 400
                          /\ ParseQrData(Text(req'[r].qrData)) = Null
                     [] a.message = MsgBatch ->
                          /\ a.status = 404
                          /\ BatchFound(r) = Null
                     [] a.message = MsgCode ->
                          /\ a.status = 404
                          /\ BatchFound(r) # Null /\ CodeFound(r) = 0
                     [] a.message = MsgScanned ->
                          /\ a.status = 400
                          /\ BatchFound(r)[1].qrCodes[CodeFound(r)].isScanned
                     [] a.message = MsgCustomer ->
                          /\ a.status = 404
                          /\ req[r].user \notin DOMAIN Customer
                     [] a.message = MsgError ->
                          /\ a.status = 500
                          /\ req[r].pc \in {"findBatch", "incPoints", "save"}
                     [] a.message = MsgEarned ->
                          /\ a.status = 200
                          /\ req[r].pc = "save"
                     [] OTHER -> FALSE
      ]_vars

\* one request was answered 404 for its customer, another 500 for its save
C17_NotFoundAndFailure ==
    \E r \in Reqs, s \in Reqs :
        /\ req[r].kind = "scan"
        /\ req[r].res = Failure(404, MsgCustomer)
        /\ s \in credited
        /\ req[s].res = Failure(500, MsgError)
        /\ ~Answer(s).success

\* the place of a program position in the handler
Rank(pc) ==
    CASE pc = "idle"      -> 0
      [] pc = "findBatch" -> 1
      [] pc = "incPoints" -> 2
      [] pc = "save"      -> 3
      [] pc = "done"      -> 4

(***************************************************************************)
(* C18.  With the store answering every operation it was sent, each        *)
(* redemption request ends: it sends an answer, which is the success, one  *)
(* of the rejections or the 500 of a store failure.  It answers once (an   *)
(* answered request never changes), and each of its steps moves it forward *)
(* in the handler, so no store operation is issued a second time.          *)
(***************************************************************************)
C18_EndsWithOneOutcome ==
    /\ \A r \in Reqs : (req[r].kind = "scan") ~> Done(r)
    /\ [](\A r \in Reqs :
            /\ Done(r) <=> req[r].res # Null
            /\ Done(r) =>
                 \/ Succeeded(r)
                 \/ req[r].res \in Rejections
                 \/ req[r].res = Failure(404, MsgCustomer)
                 \/ req[r].res = Failure(500, MsgError))
    /\ [][ \A r \in Reqs :
             req'[r] # req[r] => Rank(req'[r].pc) > Rank(req[r].pc)
       ]_vars

\* one request has ended in success and the other in a reported failure of
\* its batch lookup
C18_Ended ==
    \E r \in Reqs, s \in Reqs :
        /\ Succeeded(r)
        /\ req[s].kind = "scan"
        /\ s \notin credited
        /\ Parsed(s) # Null
        /\ req[s].res = Failure(500, MsgError)

(***************************************************************************)
(* C19.  The checks come in the order parse, active batch, entry,          *)
(* isScanned, customer credit, mark, and the first that fails decides the  *)
(* answer (unless the store fails): a malformed payload is answered at     *)
(* arrival; when the batch lookup returns, a missing or inactive batch is  *)
(* answered before a missing entry, that before a scanned entry, and a     *)
(* scanned entry is answered as already redeemed whether or not the        *)
(* customer exists; the balance is written only by the step after that     *)
(* check has passed, and the mark only by the step after the credit.       *)
(***************************************************************************)
C19_OrderOfChecks ==
    [][ \A r \in Reqs :
          ( /\ req'[r].kind = "scan"
            /\ req'[r] # req[r]
            /\ req'[r].res # Failure(500, MsgError) )
          => /\ req[r].pc = "idle" =>
                  /\ req'[r].pc = "done" <=> Parsed(r)' = Null
                  /\ req'[r].pc # "done" => req'[r].pc = "findBatch"
             /\ req[r].pc = "findBatch" =>
                  req'[r].res =
                    IF BatchFound(r) = Null THEN Failure(404, MsgBatch)
                    ELSE IF CodeFound(r) = 0 THEN Failure(404, MsgCode)
                    ELSE IF BatchFound(r)[1].qrCodes[CodeFound(r)].isScanned
                    THEN Failure(400, MsgScanned)
                    ELSE Null
             /\ req[r].pc = "findBatch" /\ req'[r].res = Null =>
                  req'[r].pc = "incPoints"
             /\ req[r].pc = "incPoints" =>
                  /\ ~req[r].qrBatch[1].qrCodes[req[r].qrCode].isScanned
                  /\ IF req[r].user \in DOMAIN Customer
                     THEN req'[r].pc = "save" /\ credited' = credited \cup {r}
                     ELSE req'[r].res = Failure(404, MsgCustomer)
             /\ req[r].pc # "incPoints" =>
                  Customer' = Customer /\ credited' = credited
             /\ req[r].pc = "save" => r \in credited /\ Succeeded(r)'
             /\ req[r].pc # "save" => QRBatch' = QRBatch
      ]_vars

\* a request of an id without a customer record, for a code that has been
\* redeemed, was answered as already redeemed
C19_RedeemedBeforeCustomer ==
    \E r \in Reqs, s \in Reqs :
        /\ req[r].kind = "scan"
        /\ Succeeded(r)
        /\ req[s].kind = "scan"
        /\ req[s].user \notin DOMAIN Customer
        /\ Parsed(s) # Null
        /\ CodeOf(s) = CodeOf(r)
        /\ AlreadyRedeemed(s)

\* the point value the codes of a batch share: the Points line of the
\* batch's qrData
BatchPoints ==
    [b \in DOMAIN InitQRBatch |->
        ParseInt(Trim(Split(
            FindLine(Split(Text(InitQRBatch[b].qrData), "\n"),
                     LabelPoints)[1], ":")[2]))[1]]

(***************************************************************************)
(* C20.  As claimed: what a redemption credits is the point value of the   *)
(* batch of its code, whatever Points the payload carries.                 *)
(***************************************************************************)
C20_CreditIsBatchValue ==
    /\ \A r \in credited :
          Parsed(r)[1].points = BatchPoints[Parsed(r)[1].batchId]
    /\ \A r \in Reqs :
          ( req[r].kind = "scan" /\ Succeeded(r) )
          => Answer(r).data[1].pointsEarned
                = BatchPoints[Answer(r).data[1].batchId]

\* the add adjustments of the customer id that were applied
AddsApplied(id) ==
    { r \in Reqs : /\ req[r].kind = "patch"
                   /\ req[r].operation = "add"
                   /\ req[r].username = Customer[id].username
                   /\ Succeeded(r) }

RECURSIVE SumDeltas(_)
\* the points of a set of PATCH requests, added up
SumDeltas(S) ==
    IF S = {} THEN 0
    ELSE LET r == CHOOSE x \in S : TRUE
         IN  req[r].body[1] + SumDeltas(S \ {r})

(***************************************************************************)
(* C21.  As claimed, of a customer to whom additions (of positive deltas)  *)
(* were applied and point values were credited: when all requests have     *)
(* been answered and the only adjustments applied were additions, the      *)
(* balance is the starting balance plus the deltas of the applied          *)
(* additions plus the point values credited, in every interleaving.        *)
(***************************************************************************)
C21_NoLostUpdate ==
    ( \A r \in Reqs :
         /\ Done(r)
         /\ req[r].kind = "patch" /\ Succeeded(r) => req[r].operation = "add" )
    => \A id \in DOMAIN Customer :
          ( /\ AddsApplied(id) # {}
            /\ \A r \in AddsApplied(id) : req[r].body[1] > 0
            /\ \E r \in credited : req[r].user = id )
          => Customer[id].points =
                InitCustomer[id].points
                + SumDeltas(AddsApplied(id))
                + SumPoints({ r \in credited : req[r].user = id })

(***************************************************************************)
(* C22.  Two overlapping redemptions of two codes of one batch, each with  *)
(* the batch loaded before the other has saved it, leave both codes        *)
(* redeemed: the save of a request sets the isScanned of its own entry and *)
(* changes no other entry and no other field of any batch, so the false it *)
(* loaded for the other entry is not written back; and when both requests  *)
(* have succeeded both entries are marked.                                 *)
(***************************************************************************)
C22_BothCodesRedeemed ==
    /\ [][ \A r \in Reqs :
             ( req[r].kind = "scan" /\ req'[r] # req[r] )
             => \A b \in DOMAIN QRBatch :
                  /\ QRBatch'[b].isActive = QRBatch[b].isActive
                  /\ QRBatch'[b].batchId = QRBatch[b].batchId
                  /\ QRBatch'[b].qrData = QRBatch[b].qrData
                  /\ \A i \in DOMAIN QRBatch[b].qrCodes :
                       IF /\ req[r].pc = "save"
                          /\ Succeeded(r)'
                          /\ b = req[r].batchId
                          /\ i = req[r].qrCode
                       THEN QRBatch'[b].qrCodes[i] =
                               [QRBatch[b].qrCodes[i] EXCEPT !.isScanned = TRUE]
                       ELSE QRBatch'[b].qrCodes[i] = QRBatch[b].qrCodes[i]
       ]_vars
    /\ [](\A r \in Reqs, s \in Reqs :
            ( /\ req[r].kind = "scan" /\ Succeeded(r)
              /\ req[s].kind = "scan" /\ Succeeded(s) )
            => /\ IsScanned(QRBatch, CodeOf(r)[1], CodeOf(r)[2])
               /\ IsScanned(QRBatch, CodeOf(s)[1], CodeOf(s)[2]))

\* one request has saved its mark of A2 and succeeded while the other,
\* which loaded the batch with A2 unmarked, is about to save its mark of A1
C22_StaleLoad ==
    \E r \in Reqs, s \in Reqs :
        /\ req[r].kind = "scan"
        /\ req[r].pc = "save"
        /\ req[r].batchId = B1
        /\ req[r].qrId = A1
        /\ ~req[r].qrBatch[1].qrCodes[2].isScanned
        /\ req[s].kind = "scan"
        /\ Succeeded(s)
        /\ CodeOf(s) = <<B1, A2>>
        /\ IsScanned(QRBatch, B1, A2)
        /\ ~IsScanned(QRBatch, B1, A1)

(***************************************************************************)
(* C23.  No step of a redemption request changes the balance of a customer *)
(* other than the caller, whatever the request's outcome.                  *)
(***************************************************************************)
C23_OtherBalancesUnchanged ==
    [][ \A r \in Reqs :
          ( req'[r].kind = "scan" /\ req'[r] # req[r] )
          => \A id \in DOMAIN Customer :
                id # req'[r].user => Customer'[id] = Customer[id]
      ]_vars

\* the customer c2 has redeemed a code and the customer c1 was rejected:
\* the balance of c2 is one point value up, that of c1 is what it was
C23_CallerAlone ==
    \E r \in Reqs, s \in Reqs :
        /\ req[r].kind = "scan"
        /\ req[r].user = "c2"
        /\ Succeeded(r)
        /\ req[s].kind = "scan"
        /\ req[s].user = "c1"
        /\ AlreadyRedeemed(s)
        /\ Customer["c2"].points
             = InitCustomer["c2"].points + Parsed(r)[1].points
        /\ Customer["c1"].points = InitCustomer["c1"].points

====
